---- MODULE Spec2Model ----
(***************************************************************************)
(* A model of the blackboard agents system: the shared Blackboard          *)
(* (src/blackboard.py), the Router (src/router.py), the workers            *)
(* (src/agents.py) and the BlackboardSystem with its two threads           *)
(* (src/main.py).                                                          *)
(*                                                                         *)
(* A Python str is modelled as a sequence of one-character strings; a      *)
(* code point outside ASCII is one element written "U+XXXX".  A message is *)
(* the record [id, from, text]; the "timestamp" field of a message is not  *)
(* modelled (no code under src/ reads it except to print it).              *)
(***************************************************************************)
EXTENDS Integers, Sequences, FiniteSets, TLC

VARIABLES
    messages,            \* Blackboard.messages
    _message_id,         \* Blackboard._message_id
    last_processed_id,   \* BlackboardSystem.router.last_processed_id
    running,             \* BlackboardSystem.running
    last_displayed_id,   \* BlackboardSystem.last_displayed_id
    pc,                  \* position of each thread: [Threads -> label]
    post_frame,          \* per thread, the frame of Blackboard.post
    display_frame,       \* per thread, the frame of display_new_messages
    agent_i,             \* index of the for loop over self.agents
    context_messages,    \* local of try_act
    result,              \* local of try_act
    console,             \* ids of the messages printed, in print order
    terminal,            \* TRUE when what is printed is recorded in console
    config,              \* Config: [CONTEXT_WINDOW, DEBUG_DECISIONS]
    turn,                \* history of the worker turn in progress or just ended
    pass,                \* history of the orchestrator pass in progress
    seen_len,            \* history: log prefix covered by a complete pass
    call,                \* the last Blackboard call of the sequential driver
    harness              \* TRUE when workers are driven directly (unit-test style)

vars == <<messages, _message_id, last_processed_id, running, last_displayed_id,
          pc, post_frame, display_frame, agent_i, context_messages,
          result, console, terminal, config, turn, pass, seen_len, call,
          harness>>

-----------------------------------------------------------------------------
(* Bounds of the model.                                                    *)

\* messages in the log: the user and the gateway stop adding work at this size
MaxLog == 5
\* requests the interactive user posts in one run
MaxInputs == 2
\* calls the sequential Blackboard driver makes to post
MaxPosts == 3
\* largest count the sequential driver passes to get_last_messages
MaxCount == 3
\* longest log on which the direct driver of the workers starts a turn
MaxContext == 2

-----------------------------------------------------------------------------
(* Python str operations on character sequences.                           *)

LowerAlpha ==
    <<"a","b","c","d","e","f","g","h","i","j","k","l","m","n","o","p","q","r","s","t","u","v",
      "w","x","y","z">>
UpperAlpha ==
    <<"A","B","C","D","E","F","G","H","I","J","K","L","M","N","O","P","Q","R","S","T","U","V",
      "W","X","Y","Z">>

\* str.upper() and str.lower(), one character
UpperChar(c) ==
    IF \E i \in 1..Len(LowerAlpha) : LowerAlpha[i] = c
    THEN UpperAlpha[CHOOSE i \in 1..Len(LowerAlpha) : LowerAlpha[i] = c]
    ELSE c

LowerChar(c) ==
    IF \E i \in 1..Len(UpperAlpha) : UpperAlpha[i] = c
    THEN LowerAlpha[CHOOSE i \in 1..Len(UpperAlpha) : UpperAlpha[i] = c]
    ELSE c

Upper(s) == [i \in 1..Len(s) |-> UpperChar(s[i])]

Lower(s) == [i \in 1..Len(s) |-> LowerChar(s[i])]

\* str.startswith(p)
StartsWith(s, p) == Len(s) >= Len(p) /\ SubSeq(s, 1, Len(p)) = p

\* p in s
Contains(s, p) == \E i \in 0..(Len(s) - Len(p)) : SubSeq(s, i + 1, i + Len(p)) = p

IsSpace(c) == c \in {" ", "\t", "\n", "\r", "\f"}

\* len(s.split()): the number of maximal runs of non-whitespace characters
WordCount(s) ==
    Cardinality({i \in 1..Len(s) : ~IsSpace(s[i]) /\ (i = 1 \/ IsSpace(s[i - 1]))})

\* str.lstrip() in place of str.strip()
Strip_leading(s) ==
    LET solid == {i \in 1..Len(s) : ~IsSpace(s[i])}
    IN  IF solid = {} THEN <<>>
        ELSE SubSeq(s, CHOOSE i \in solid : \A j \in solid : i <= j, Len(s))

\* str.strip()
Strip(s) ==
    LET solid == {i \in 1..Len(s) : ~IsSpace(s[i])}
    IN  IF solid = {} THEN <<>>
        ELSE SubSeq(s, CHOOSE i \in solid : \A j \in solid : i <= j,
                       CHOOSE i \in solid : \A j \in solid : j <= i)

\* seq[start:] of Python, for any integer start
SliceFrom(seq, start) ==
    LET n == Len(seq)
        from == IF start < 0 THEN (IF n + start < 0 THEN 0 ELSE n + start)
                ELSE (IF start > n THEN n ELSE start)
    IN  SubSeq(seq, from + 1, n)

\* n words "w" separated by single blanks
Words(n) == [i \in 1..(IF n = 0 THEN 0 ELSE 2 * n - 1) |-> IF i % 2 = 1 THEN "w" ELSE " "]

-----------------------------------------------------------------------------
(* Blackboard (src/blackboard.py).                                         *)

USER ==
    <<"u","s","e","r">>
SYSTEM ==
    <<"s","y","s","t","e","m">>

\* post without the increment of line 13
post_increment_forgotten(counter) == counter

\* post, line 13: self._message_id += 1
post_increment(counter) == counter + 1

\* post, lines 14-19: the message built from the counter as read
post_message(counter, sender, content) ==
    [id |-> counter, from |-> sender, text |-> content]

\* post, line 20: self.messages.append(message)
post_append(msgs, message) == Append(msgs, message)

get_last_messages(msgs, count) ==
    IF msgs # <<>> THEN SliceFrom(msgs, -count) ELSE <<>>

get_messages_since(msgs, message_id) ==
    SelectSeq(msgs, LAMBDA msg : msg.id > message_id)

get_all_messages(msgs) == msgs

-----------------------------------------------------------------------------
(* Router (src/router.py).                                                 *)

NoMessages ==
    <<"N","o"," ","m","e","s","s","a","g","e","s"," ","a","v","a","i","l","a","b","l","e",".">>

get_context_for_agent(msgs, context_window) == get_last_messages(msgs, context_window)

has_new_messages(msgs, last_id) == Len(get_messages_since(msgs, last_id)) > 0

\* mark_processed taking the id of the first message, messages[0]["id"]
mark_processed_first(msgs, last_id) ==
    IF msgs # <<>> THEN msgs[1].id ELSE last_id

mark_processed(msgs, last_id) ==
    IF msgs # <<>> THEN msgs[Len(msgs)].id ELSE last_id

RECURSIVE join_lines(_)
join_lines(msgs) ==
    IF msgs = <<>> THEN <<>>
    ELSE LET line == msgs[1].from \o <<":", " ">> \o msgs[1].text
         IN  IF Len(msgs) = 1 THEN line
             ELSE line \o <<"\n">> \o join_lines(Tail(msgs))

format_context(msgs) ==
    IF msgs = <<>> THEN NoMessages ELSE join_lines(msgs)

-----------------------------------------------------------------------------
(* Workers (src/agents.py).  The goal and the prompt of an agent only      *)
(* shape the text sent to the gateway, whose answer is an input here.      *)

WriterName ==
    <<"w","r","i","t","e","r","-","a","g","e","n","t">>
EditorName ==
    <<"e","d","i","t","o","r","-","a","g","e","n","t">>
GrammarName ==
    <<"g","r","a","m","m","a","r","-","a","g","e","n","t">>
WriterCompletion ==
    <<"U+1F4DD"," ","I","'","v","e"," ","d","r","a","f","t","e","d"," ","a","n"," ","a","r","t",
      "i","c","l","e","."," ","S","e","e"," ","o","n","e"," ","m","e","s","s","a","g","e"," ",
      "a","b","o","v","e"," ","f","r","o","m"," ","m","e","."," ","C","o","u","l","d"," ","s",
      "o","m","e","o","n","e"," ","p","l","e","a","s","e"," ","h","a","v","e"," ","a"," ","l",
      "o","o","k"," ","a","n","d"," ","e","d","i","t"," ","i","t"," ","f","o","r"," ","b","e",
      "t","t","e","r"," ","s","t","y","l","e"," ","a","n","d"," ","f","l","o","w","?">>
EditorCompletion ==
    <<"U+270F","U+FE0F"," ","I","'","v","e"," ","i","m","p","r","o","v","e","d"," ","t","h","e",
      " ","w","r","i","t","i","n","g"," ","s","t","y","l","e"," ","a","n","d"," ","s","t","r",
      "u","c","t","u","r","e","."," ","S","e","e"," ","o","n","e"," ","m","e","s","s","a","g",
      "e"," ","a","b","o","v","e"," ","f","r","o","m"," ","m","e","."," ","C","o","u","l","d",
      " ","s","o","m","e","o","n","e"," ","p","l","e","a","s","e"," ","c","h","e","c","k"," ",
      "f","o","r"," ","g","r","a","m","m","a","r"," ","a","n","d"," ","l","a","n","g","u","a",
      "g","e"," ","e","r","r","o","r","s","?">>
GrammarCompletion ==
    <<"U+2705"," ","G","r","a","m","m","a","r"," ","c","h","e","c","k"," ","c","o","m","p","l",
      "e","t","e","!"," ","S","e","e"," ","i","m","p","r","o","v","e","d"," ","a","r","t","i",
      "c","l","e"," ","o","n","e"," ","m","e","s","s","a","g","e"," ","a","b","o","v","e"," ",
      "f","r","o","m"," ","m","e","."," ","T","h","e"," ","a","r","t","i","c","l","e"," ","i",
      "s"," ","n","o","w"," ","p","o","l","i","s","h","e","d"," ","a","n","d"," ","r","e","a",
      "d","y"," ","f","o","r"," ","p","u","b","l","i","c","a","t","i","o","n",".">>
WorkingPrefix ==
    <<"U+1F916"," ">>
WorkingSuffix ==
    <<" ","i","s"," ","w","o","r","k","i","n","g"," ","o","n"," ","t","h","i","s"," ","t","a",
      "s","k",".",".",".">>
ErrorPrefix ==
    <<"E","r","r","o","r"," ","p","r","o","c","e","s","s","i","n","g"," ","t","e","x","t",":",
      " ">>
DecisionPrefix ==
    <<"D","E","C","I","S","I","O","N",":"," ">>
YES ==
    <<"Y","E","S">>
Phrase1 ==
    <<"p","l","e","a","s","e"," ","s","h","a","r","e">>
Phrase2 ==
    <<"p","l","e","a","s","e"," ","p","r","o","v","i","d","e">>
Phrase3 ==
    <<"c","e","r","t","a","i","n","l","y","!">>
Phrase4 ==
    <<"i","'","l","l"," ","h","e","l","p">>
Phrase5 ==
    <<"i"," ","w","i","l","l"," ","h","e","l","p">>
Phrase6 ==
    <<"s","e","n","d"," ","m","e">>
Phrase7 ==
    <<"g","i","v","e"," ","m","e">>

\* BlackboardSystem.agents, in list order
agents ==
    << [name |-> WriterName,  completion |-> WriterCompletion],
       [name |-> EditorName,  completion |-> EditorCompletion],
       [name |-> GrammarName, completion |-> GrammarCompletion] >>

generic_phrases == {Phrase1, Phrase2, Phrase3, Phrase4, Phrase5, Phrase6, Phrase7}

\* the floor of line 157 one word higher
WordFloorRaised == 20 + 1

\* the floor on the word count of a completed task
WordFloor == 20

\* did_complete_task with the word count alone, without lines 150-153
did_complete_task_by_length(text) ==
    IF WordCount(text) < WordFloor THEN FALSE ELSE TRUE

\* did_complete_task, lines 135-160; result_lower is bound to its value once
did_complete_task(text) ==
    \E result_lower \in {Lower(text)} :
        IF \E phrase \in generic_phrases : Contains(result_lower, phrase) THEN FALSE
        ELSE IF WordCount(text) < WordFloor THEN FALSE
        ELSE TRUE

\* get_completion_message of BaseAgent, lines 131-133, not overridden
get_completion_message_base(i) == <<>>

get_completion_message(i) == agents[i].completion

\* try_act, line 120: the notice posted under "system"
working_notice(name) == WorkingPrefix \o name \o WorkingSuffix

\* try_act without the test of lines 113-114
no_context_unchecked(msgs) == FALSE

\* try_act, lines 113-114: if not context_messages: return
no_context(msgs) == msgs = <<>>

(* A gateway call ends with a text or with an exception:                   *)
(*   [kind |-> "ok", text |-> s]  or  [kind |-> "raise", text |-> s].      *)
(* should_act and process_text give what the caller sees: raised is TRUE   *)
(* when the exception leaves the method.                                   *)
\* should_act without its except clause (lines 75-77)
should_act_uncaught(outcome, debug_decisions) ==
    IF outcome.kind = "raise"
    THEN [raised |-> TRUE, decision |-> FALSE, debug_post |-> FALSE]
    ELSE LET answer == Upper(outcome.text)
             decision == StartsWith(answer, YES)
         IN  [raised |-> FALSE, decision |-> decision,
              debug_post |-> (~decision /\ debug_decisions)]

\* should_act posting its negative decisions whatever the debug flag
should_act_always_posting(outcome, debug_decisions) ==
    IF outcome.kind = "raise"
    THEN [raised |-> FALSE, decision |-> FALSE, debug_post |-> FALSE]
    ELSE LET answer == Upper(outcome.text)
             decision == StartsWith(answer, YES)
         IN  [raised |-> FALSE, decision |-> decision, debug_post |-> ~decision]

\* should_act with "YES" in answer in place of answer.startswith("YES")
should_act_contains(outcome, debug_decisions) ==
    IF outcome.kind = "raise"
    THEN [raised |-> FALSE, decision |-> FALSE, debug_post |-> FALSE]
    ELSE LET answer == Upper(outcome.text)
             decision == Contains(answer, YES)
         IN  [raised |-> FALSE, decision |-> decision,
              debug_post |-> (~decision /\ debug_decisions)]

\* should_act, lines 56-77
should_act(outcome, debug_decisions) ==
    IF outcome.kind = "raise"
    THEN [raised |-> FALSE, decision |-> FALSE, debug_post |-> FALSE]
    ELSE LET answer == Upper(outcome.text)
             decision == StartsWith(answer, YES)
         IN  [raised |-> FALSE, decision |-> decision,
              debug_post |-> (~decision /\ debug_decisions)]

\* process_text returning the bare exception text, without "Error processing text: "
process_text_unmarked(outcome) ==
    IF outcome.kind = "raise"
    THEN [raised |-> FALSE, value |-> outcome.text]
    ELSE [raised |-> FALSE, value |-> outcome.text]

\* process_text without its except clause (lines 107-108)
process_text_uncaught(outcome) ==
    IF outcome.kind = "raise"
    THEN [raised |-> TRUE, value |-> <<>>]
    ELSE [raised |-> FALSE, value |-> outcome.text]

\* process_text, lines 95-108
process_text(outcome) ==
    IF outcome.kind = "raise"
    THEN [raised |-> FALSE, value |-> ErrorPrefix \o outcome.text]
    ELSE [raised |-> FALSE, value |-> outcome.text]

-----------------------------------------------------------------------------
(* Inputs: what the user types, what the gateway answers, the Config.      *)

YesRelevant ==
    <<"Y","E","S",":"," ","r","e","l","e","v","a","n","t">>
NoReply ==
    <<"N","O">>
TimeoutMsg ==
    <<"t","i","m","e","o","u","t">>
WriteAboutCats ==
    <<"W","r","i","t","e"," ","a","b","o","u","t"," ","c","a","t","s">>
QuitWord ==
    <<"q","u","i","t">>
ExitWord ==
    <<"e","x","i","t">>
QWord ==
    <<"q">>

Ok(s) == [kind |-> "ok", text |-> s]
Raise(s) == [kind |-> "raise", text |-> s]

\* answers of the gateway to a judgment request
JudgeOutcomes == {Ok(YesRelevant), Ok(NoReply), Raise(TimeoutMsg)}

\* answers of the gateway to a generation request: a 20-word text, an
\* exception with a short message, an exception with a 17-word message
GenOutcomes == {Ok(Words(20)), Raise(TimeoutMsg), Raise(Words(17))}

\* lines typed by the user: a request between blanks, blank lines, and the
\* quit words in several cases and between blanks
PaddedRequest == <<" ", " ">> \o WriteAboutCats \o <<" ", "\t">>
BlankLines == {<<>>, <<" ">>, <<"\t", " ">>}
QuitLines == {<<" ","Q","u","i","t">>, <<"E","X","I","T"," ">>, <<"q">>}
InputLines == {PaddedRequest} \cup BlankLines \cup QuitLines

\* Config.CONTEXT_WINDOW default
DefaultContextWindow == 5

SystemConfigs == {[CONTEXT_WINDOW |-> DefaultContextWindow, DEBUG_DECISIONS |-> FALSE]}

Threads == {"main", "agent"}

QuitWords == {QuitWord, ExitWord, QWord}

\* the most messages one worker turn posts: notice, contribution, hand-off
TurnPosts == 3

NoPost == [sender |-> <<>>, content |-> <<>>, id |-> 0, ret |-> "none"]
NoTurn == [agent |-> 0, start |-> 0, judge |-> "none", answer |-> <<>>, decision |-> FALSE,
           gen |-> "none", posts |-> <<>>, sentinel |-> FALSE]
NoPass == [invited |-> {}, ended |-> {}, stopped |-> FALSE, first_len |-> -1,
           failed |-> {}, late_begun |-> 0, late_ended |-> 0,
           marked |-> 0]
\* refs is the list the caller got from get_all_messages: a new list of the
\* same dict objects, each named by its position in the Blackboard's list;
\* the caller keeps it until its next call of the Blackboard
NoCall == [op |-> "none", arg |-> <<>>, ret |-> <<>>, posts |-> 0, refs |-> <<>>]

\* the state after Blackboard() and BlackboardSystem() are constructed
Constructed ==
    /\ messages = <<>>
    /\ _message_id = 0
    /\ last_processed_id = 0
    /\ running = FALSE
    /\ last_displayed_id = 0
    /\ post_frame = [t \in Threads |-> NoPost]
    /\ display_frame = [t \in Threads |-> <<>>]
    /\ agent_i = 0
    /\ context_messages = <<>>
    /\ result = <<>>
    /\ console = <<>>
    /\ turn = NoTurn
    /\ pass = NoPass
    /\ seen_len = 0
    /\ call = NoCall

Init ==
    /\ Constructed
    /\ pc = [main |-> "start", agent |-> "unstarted"]
    /\ config \in SystemConfigs
    /\ harness = FALSE
    /\ terminal = FALSE

\* the same system with the terminal output recorded
InitTerminal ==
    /\ Constructed
    /\ pc = [main |-> "start", agent |-> "unstarted"]
    /\ config \in SystemConfigs
    /\ harness = FALSE
    /\ terminal = TRUE

\* The log stays within MaxLog: the posts already under way, and those a
\* turn that has decided to act may still make, are counted with the n new
\* ones.
Pending ==
    (IF pc["main"] \in {"post_increment", "post_message", "post_append"} THEN 1 ELSE 0)
    + (IF turn.decision THEN TurnPosts - Len(turn.posts)
       ELSE IF pc["agent"] \in {"post_increment", "post_message", "post_append"} THEN 1
       ELSE 0)

Room(n) == Len(messages) + Pending + n <= MaxLog

\* requests the user has posted or is posting
UserPosts ==
    Len(SelectSeq(messages, LAMBDA msg : msg.from = USER))
    + (IF pc["main"] \in {"post_increment", "post_message", "post_append"} THEN 1 ELSE 0)

-----------------------------------------------------------------------------
(* Blackboard.post and display_new_messages, step by step, by thread t.    *)

CallPost(t, sender, content, ret) ==
    /\ post_frame' = [post_frame EXCEPT ![t] =
                        [sender |-> sender, content |-> content, id |-> 0, ret |-> ret]]
    /\ pc' = [pc EXCEPT ![t] = "post_increment"]

PostIncrement(t) ==
    /\ pc[t] = "post_increment"
    /\ _message_id' = post_increment(_message_id)
    /\ pc' = [pc EXCEPT ![t] = "post_message"]
    /\ UNCHANGED <<messages, last_processed_id, running, last_displayed_id, post_frame,
                   display_frame, agent_i, context_messages, result, console, config,
                   turn, pass, seen_len, call, harness, terminal>>

PostMessage(t) ==
    /\ pc[t] = "post_message"
    /\ post_frame' = [post_frame EXCEPT ![t].id = _message_id]
    /\ pc' = [pc EXCEPT ![t] = "post_append"]
    /\ UNCHANGED <<messages, _message_id, last_processed_id, running, last_displayed_id,
                   display_frame, agent_i, context_messages, result, console, config,
                   turn, pass, seen_len, call, harness, terminal>>

PostAppend(t) ==
    /\ pc[t] = "post_append"
    /\ messages' = post_append(messages,
                       post_message(post_frame[t].id, post_frame[t].sender,
                                    post_frame[t].content))
    /\ pc' = [pc EXCEPT ![t] = post_frame[t].ret]
    /\ post_frame' = [post_frame EXCEPT ![t] = NoPost]
    /\ turn' = IF t = "agent" THEN [turn EXCEPT !.posts = Append(@, Len(messages) + 1)]
               ELSE turn
    /\ UNCHANGED <<_message_id, last_processed_id, running, last_displayed_id,
                   display_frame, agent_i, context_messages, result, console, config,
                   pass, seen_len, call, harness, terminal>>

\* display_new_messages, line 43
DisplayGet(t) ==
    /\ pc[t] = "display_get"
    /\ display_frame' = [display_frame EXCEPT
                            ![t] = get_messages_since(messages, last_displayed_id)]
    /\ pc' = [pc EXCEPT ![t] = "display_print"]
    /\ UNCHANGED <<messages, _message_id, last_processed_id, running, last_displayed_id,
                   post_frame, agent_i, context_messages, result, console, config,
                   turn, pass, seen_len, call, harness, terminal>>

\* display_new_messages, lines 45-62
DisplayPrint(t) ==
    /\ pc[t] = "display_print"
    /\ LET new_messages == display_frame[t]
       IN  /\ console' = IF terminal
                       THEN console \o [k \in 1..Len(new_messages) |-> new_messages[k].id]
                       ELSE console
           /\ last_displayed_id' = IF new_messages # <<>>
                                   THEN new_messages[Len(new_messages)].id
                                   ELSE last_displayed_id
    /\ display_frame' = [display_frame EXCEPT ![t] = <<>>]
    /\ pc' = [pc EXCEPT ![t] = IF t = "main" THEN "input" ELSE "sleep"]
    /\ UNCHANGED <<messages, _message_id, last_processed_id, running, post_frame,
                   agent_i, context_messages, result, config, turn, pass,
                   seen_len, call, harness, terminal>>

-----------------------------------------------------------------------------
(* The main thread: BlackboardSystem.start and stop (src/main.py).         *)

\* start, lines 82-86: running is set, the agent thread is started
Start ==
    /\ pc["main"] = "start"
    /\ running' = TRUE
    /\ pc' = [main |-> "input", agent |-> "while"]
    /\ UNCHANGED <<messages, _message_id, last_processed_id, last_displayed_id,
                   post_frame, display_frame, agent_i, context_messages, result, console,
                   config, turn, pass, seen_len, call, harness, terminal>>

\* stop, line 114, reached through the finally clause of start
stop(t) ==
    /\ running' = FALSE
    /\ pc' = [pc EXCEPT ![t] = "returned"]

\* start, lines 96-110: one round of the input loop; quit, exit and q break
\* out of it and the finally clause calls stop
UserInput(line) ==
    /\ pc["main"] = "input"
    /\ running
    /\ (Strip(line) # <<>> /\ Lower(Strip(line)) \notin QuitWords) =>
            (Room(1) /\ UserPosts < MaxInputs)
    /\ LET user_input == Strip(line)
       IN  IF Lower(user_input) \in QuitWords
           THEN /\ stop("main")
                /\ UNCHANGED post_frame
           ELSE IF user_input # <<>>
           THEN /\ CallPost("main", USER, user_input, "display_get")
                /\ UNCHANGED running
           ELSE UNCHANGED <<pc, post_frame, running>>
    /\ UNCHANGED <<messages, _message_id, last_processed_id, last_displayed_id,
                   display_frame, agent_i, context_messages, result, console, config,
                   turn, pass, seen_len, call, harness, terminal>>

\* start, lines 107-110: Ctrl-C while input() waits, then the finally clause
KeyboardInterrupt ==
    /\ pc["main"] = "input"
    /\ stop("main")
    /\ UNCHANGED <<messages, _message_id, last_processed_id, last_displayed_id,
                   post_frame, display_frame, agent_i, context_messages, result, console,
                   config, turn, pass, seen_len, call, harness, terminal>>

\* main returns: the interpreter exits and the daemon thread ends where it is
ProcessExit ==
    /\ pc["main"] = "returned"
    /\ pc' = [main |-> "exited",
              agent |-> IF pc["agent"] \in {"finished", "dead"} THEN pc["agent"]
                        ELSE "killed"]
    /\ UNCHANGED <<messages, _message_id, last_processed_id, running, last_displayed_id,
                   post_frame, display_frame, agent_i, context_messages, result, console,
                   config, turn, pass, seen_len, call, harness, terminal>>

-----------------------------------------------------------------------------
(* The agent thread: agent_processing_loop (src/main.py) and try_act       *)
(* (src/agents.py).                                                        *)

\* the for loop without the test of line 70
still_running_unchecked(flag) == TRUE

\* line 70: if self.running
still_running(flag) == flag

\* the for loop of line 69 stuck on the agent it has just invited
next_agent_repeated(i) == i

\* line 69: for agent in self.agents goes on to the next agent of the list
next_agent(i) == i + 1

\* line 66: while self.running
LoopTop ==
    /\ pc["agent"] = "while"
    /\ pc' = [pc EXCEPT !["agent"] = IF running THEN "has_new" ELSE "finished"]
    /\ UNCHANGED <<messages, _message_id, last_processed_id, running, last_displayed_id,
                   post_frame, display_frame, agent_i, context_messages, result, console,
                   config, turn, pass, seen_len, call, harness, terminal>>

\* line 67: if self.router.has_new_messages()
HasNew ==
    /\ pc["agent"] = "has_new"
    /\ IF has_new_messages(messages, last_processed_id)
       THEN /\ pc' = [pc EXCEPT !["agent"] = "for"]
            /\ agent_i' = 1
            /\ pass' = [NoPass EXCEPT !.marked = pass.marked]
       ELSE /\ pc' = [pc EXCEPT !["agent"] = "sleep"]
            /\ UNCHANGED <<agent_i, pass>>
    /\ UNCHANGED <<messages, _message_id, last_processed_id, running, last_displayed_id,
                   post_frame, display_frame, context_messages, result, console, config,
                   turn, seen_len, call, harness, terminal>>

\* lines 69-71: for agent in self.agents: if self.running: agent.try_act()
ForAgent ==
    /\ pc["agent"] = "for"
    /\ IF agent_i > Len(agents)
       THEN /\ pc' = [pc EXCEPT !["agent"] = "mark"]
            /\ agent_i' = 0
            /\ UNCHANGED pass
       ELSE IF still_running(running)
       THEN /\ pc' = [pc EXCEPT !["agent"] = "try_act"]
            /\ pass' = [pass EXCEPT !.invited = @ \cup {agent_i}]
            /\ UNCHANGED agent_i
       ELSE /\ agent_i' = next_agent(agent_i)
            /\ pass' = [pass EXCEPT !.stopped = TRUE]
            /\ UNCHANGED pc
    /\ UNCHANGED <<messages, _message_id, last_processed_id, running, last_displayed_id,
                   post_frame, display_frame, context_messages, result, console, config,
                   turn, seen_len, call, harness, terminal>>

\* BaseAgent.__init__, line 30: the Router of a worker is built with
\* Config.CONTEXT_WINDOW
agent_context_window(cfg) == cfg.CONTEXT_WINDOW

\* try_act, lines 112-116
TryAct ==
    /\ pc["agent"] = "try_act"
    /\ context_messages' = get_context_for_agent(messages, agent_context_window(config))
    /\ turn' = [NoTurn EXCEPT !.agent = agent_i, !.start = Len(messages)]
    /\ pass' = [pass EXCEPT
                    !.first_len = IF @ < 0 THEN Len(messages) ELSE @,
                    !.late_begun = IF ~running /\ ~harness THEN @ + 1 ELSE @]
    /\ pc' = [pc EXCEPT !["agent"] =
                IF no_context(context_messages') THEN "return" ELSE "should_act"]
    /\ UNCHANGED <<messages, _message_id, last_processed_id, running, last_displayed_id,
                   post_frame, display_frame, agent_i, result, console, config, seen_len, call, harness, terminal>>

\* try_act, line 118 with should_act, lines 56-77: the judgment call returns
\* `outcome`; an affirmative decision goes on to post the notice of line 120
ShouldAct(outcome) ==
    /\ pc["agent"] = "should_act"
    /\ LET r == should_act(outcome, config.DEBUG_DECISIONS)
           name == agents[agent_i].name
       IN  /\ r.decision => Room(TurnPosts)
           /\ r.debug_post => Room(1)
           /\ turn' = [turn EXCEPT !.judge = outcome.kind, !.answer = outcome.text,
                          !.decision = r.decision,
                          !.sentinel = (format_context(context_messages) = NoMessages)]
           /\ IF r.raised
              THEN /\ pc' = [pc EXCEPT !["agent"] = "dead"]
                   /\ UNCHANGED post_frame
              ELSE IF r.debug_post
              THEN CallPost("agent", name, DecisionPrefix \o outcome.text, "return")
              ELSE IF r.decision
              THEN CallPost("agent", SYSTEM, working_notice(name), "process_text")
              ELSE /\ pc' = [pc EXCEPT !["agent"] = "return"]
                   /\ UNCHANGED post_frame
    /\ pass' = IF outcome.kind = "raise" THEN [pass EXCEPT !.failed = @ \cup {agent_i}]
               ELSE pass
    /\ UNCHANGED <<messages, _message_id, last_processed_id, running, last_displayed_id,
                   display_frame, agent_i, context_messages, result, console, config,
                   seen_len, call, harness, terminal>>

\* try_act, lines 122-123 with process_text, lines 95-108: the generation
\* call returns `outcome`
ProcessText(outcome) ==
    /\ pc["agent"] = "process_text"
    /\ LET r == process_text(outcome)
       IN  /\ turn' = [turn EXCEPT !.gen = outcome.kind]
           /\ IF r.raised
              THEN /\ pc' = [pc EXCEPT !["agent"] = "dead"]
                   /\ UNCHANGED <<post_frame, result>>
              ELSE /\ result' = r.value
                   /\ CallPost("agent", agents[agent_i].name, r.value, "completion")
    /\ pass' = IF outcome.kind = "raise" THEN [pass EXCEPT !.failed = @ \cup {agent_i}]
               ELSE pass
    /\ UNCHANGED <<messages, _message_id, last_processed_id, running, last_displayed_id,
                   display_frame, agent_i, context_messages, console, config, seen_len,
                   call, harness, terminal>>

\* try_act, lines 126-129
Completion ==
    /\ pc["agent"] = "completion"
    /\ IF did_complete_task(result) /\ get_completion_message(agent_i) # <<>>
       THEN CallPost("agent", agents[agent_i].name, get_completion_message(agent_i),
                     "return")
       ELSE /\ pc' = [pc EXCEPT !["agent"] = "return"]
            /\ UNCHANGED post_frame
    /\ UNCHANGED <<messages, _message_id, last_processed_id, running, last_displayed_id,
                   display_frame, agent_i, context_messages, result, console, config,
                   turn, pass, seen_len, call, harness, terminal>>

\* try_act returns to its caller, the for loop or the direct driver; its
\* locals end with it
Return ==
    /\ pc["agent"] = "return"
    /\ IF harness
       THEN /\ pc' = [pc EXCEPT !["agent"] = "idle"]
            /\ agent_i' = 0
       ELSE /\ pc' = [pc EXCEPT !["agent"] = "for"]
            /\ agent_i' = next_agent(agent_i)
    /\ context_messages' = <<>>
    /\ result' = <<>>
    /\ turn' = NoTurn
    /\ pass' = IF harness THEN NoPass
               ELSE [pass EXCEPT !.ended = @ \cup {agent_i},
                                 !.late_ended = IF ~running THEN @ + 1 ELSE @]
    /\ UNCHANGED <<messages, _message_id, last_processed_id, running, last_displayed_id,
                   post_frame, display_frame, console, config, seen_len, call, harness,
                   terminal>>

\* line 73: self.router.mark_processed(); then line 76 calls the display
MarkProcessed ==
    /\ pc["agent"] = "mark"
    /\ last_processed_id' = mark_processed(messages, last_processed_id)
    /\ seen_len' = IF pass.invited = 1..Len(agents) /\ pass.first_len > seen_len
                   THEN pass.first_len ELSE seen_len
    /\ pass' = [NoPass EXCEPT !.marked = Len(messages)]
    /\ pc' = [pc EXCEPT !["agent"] = "display_get"]
    /\ UNCHANGED <<messages, _message_id, running, last_displayed_id, post_frame,
                   display_frame, agent_i, context_messages, result, console, config,
                   turn, call, harness, terminal>>

\* line 78: time.sleep(0.5)
Sleep ==
    /\ pc["agent"] = "sleep"
    /\ pc' = [pc EXCEPT !["agent"] = "while"]
    /\ UNCHANGED <<messages, _message_id, last_processed_id, running, last_displayed_id,
                   post_frame, display_frame, agent_i, context_messages, result, console,
                   config, turn, pass, seen_len, call, harness, terminal>>

AgentStep ==
    \/ LoopTop
    \/ HasNew
    \/ ForAgent
    \/ TryAct
    \/ \E outcome \in JudgeOutcomes : ShouldAct(outcome)
    \/ \E outcome \in GenOutcomes : ProcessText(outcome)
    \/ Completion
    \/ Return
    \/ MarkProcessed
    \/ Sleep
    \/ PostIncrement("agent")
    \/ PostMessage("agent")
    \/ PostAppend("agent")
    \/ DisplayGet("agent")
    \/ DisplayPrint("agent")

MainStep ==
    \/ Start
    \/ \E line \in InputLines : UserInput(line)
    \/ KeyboardInterrupt
    \/ ProcessExit
    \/ PostIncrement("main")
    \/ PostMessage("main")
    \/ PostAppend("main")
    \/ DisplayGet("main")
    \/ DisplayPrint("main")

Next == MainStep \/ AgentStep

Spec == Init /\ [][Next]_vars

SpecTerminal == InitTerminal /\ [][Next]_vars

\* the agent thread is scheduled and every gateway call returns
FairSpec == Spec /\ WF_vars(AgentStep)

-----------------------------------------------------------------------------
(* A sequential driver of the Blackboard alone: one call after another.    *)

Senders == {USER, SYSTEM}
Contents == {WriteAboutCats, <<"h","i">>}

InitBB ==
    /\ Constructed
    /\ pc = [main |-> "driver", agent |-> "unstarted"]
    /\ config \in SystemConfigs
    /\ harness = FALSE
    /\ terminal = FALSE

BBFrame ==
    UNCHANGED <<last_processed_id, running, last_displayed_id, pc, post_frame,
                display_frame, agent_i, context_messages, result, console, config,
                turn, pass, seen_len, harness, terminal>>

\* post, lines 13-21, run without interruption
BBPost(sender, content) ==
    /\ call.posts < MaxPosts
    /\ LET counter == post_increment(_message_id)
       IN  /\ _message_id' = counter
           /\ messages' = post_append(messages, post_message(counter, sender, content))
           /\ call' = [op |-> "post", arg |-> <<sender, content>>, ret |-> counter,
                       posts |-> call.posts + 1, refs |-> <<>>]
    /\ BBFrame

BBGetLast(count) ==
    /\ call' = [call EXCEPT !.op = "get_last_messages", !.arg = count,
                            !.ret = get_last_messages(messages, count),
                            !.refs = <<>>]
    /\ UNCHANGED <<messages, _message_id>>
    /\ BBFrame

BBGetSince(message_id) ==
    /\ call' = [call EXCEPT !.op = "get_messages_since", !.arg = message_id,
                            !.ret = get_messages_since(messages, message_id),
                            !.refs = <<>>]
    /\ UNCHANGED <<messages, _message_id>>
    /\ BBFrame

\* list.copy(), line 33: a new list whose entries are the same objects
copy_refs(msgs) == [k \in 1..Len(msgs) |-> k]

BBGetAll ==
    /\ call' = [call EXCEPT !.op = "get_all_messages", !.arg = <<>>,
                            !.ret = get_all_messages(messages),
                            !.refs = copy_refs(messages)]
    /\ UNCHANGED <<messages, _message_id>>
    /\ BBFrame

Tampered == <<"x">>

\* the caller changes the list it got: pop(), reverse(), or append of a
\* dict of its own (reference 0)
BBCallerChangesList(how) ==
    /\ call.op \in {"get_all_messages", "caller_list", "caller_field"}
    /\ \/ how = "pop" /\ call.refs # <<>>
          /\ call' = [call EXCEPT !.op = "caller_list", !.arg = how,
                                  !.refs = SubSeq(@, 1, Len(@) - 1)]
       \/ how = "reverse" /\ Len(call.refs) >= 2
          /\ call' = [call EXCEPT !.op = "caller_list", !.arg = how,
                                  !.refs = [k \in 1..Len(@) |-> @[Len(@) + 1 - k]]]
       \/ how = "append" /\ Len(call.refs) <= Len(messages)
          /\ call' = [call EXCEPT !.op = "caller_list", !.arg = how,
                                  !.refs = Append(@, 0)]
    /\ UNCHANGED <<messages, _message_id>>
    /\ BBFrame

\* the caller assigns returned[k]["text"]: the dict is the one the
\* Blackboard's list holds at position refs[k]
BBCallerChangesField(k) ==
    /\ call.op \in {"get_all_messages", "caller_list", "caller_field"}
    /\ k \in 1..Len(call.refs)
    /\ call' = [call EXCEPT !.op = "caller_field", !.arg = k]
    /\ messages' = IF call.refs[k] = 0 THEN messages
                   ELSE [messages EXCEPT ![call.refs[k]].text = Tampered]
    /\ UNCHANGED _message_id
    /\ BBFrame

NextBB ==
    \/ \E sender \in Senders, content \in Contents : BBPost(sender, content)
    \/ \E count \in (0 - MaxCount)..MaxCount : BBGetLast(count)
    \/ \E message_id \in 0..MaxPosts : BBGetSince(message_id)
    \/ BBGetAll

SpecBB == InitBB /\ [][NextBB]_vars

\* the driver that also changes what get_all_messages returned to it
NextCaller ==
    \/ NextBB
    \/ \E how \in {"pop", "reverse", "append"} : BBCallerChangesList(how)
    \/ \E k \in 1..(MaxPosts + 1) : BBCallerChangesField(k)

SpecCaller == InitBB /\ [][NextCaller]_vars

\* texts a message may hold: a generated text of two lines whose second line
\* begins like a message of the user
TwoLines ==
    <<"o","k","\n","u","s","e","r",":"," ","g","o">>
FormatContents == {<<"h","i">>, TwoLines}
FormatSenders == {USER, SYSTEM, WriterName}

\* Router.format_context, lines 29-38, called with get_last_messages(count)
BBFormat(count) ==
    /\ LET msgs == get_last_messages(messages, count)
       IN  call' = [call EXCEPT !.op = "format_context", !.arg = msgs,
                               !.ret = format_context(msgs), !.refs = <<>>]
    /\ UNCHANGED <<messages, _message_id>>
    /\ BBFrame

\* the driver that posts and renders
NextFormat ==
    \/ \E sender \in FormatSenders, content \in FormatContents : BBPost(sender, content)
    \/ \E count \in 1..MaxCount : BBFormat(count)

SpecFormat == InitBB /\ [][NextFormat]_vars

-----------------------------------------------------------------------------
(* A direct driver of the workers, as a unit test with a stub gateway      *)
(* drives them: it posts to the Blackboard and calls try_act of any        *)
(* worker, one call after another, for every Config.                       *)

ContextWindows == {-1, 0, 1, DefaultContextWindow}

\* judgment answers of a stub gateway: affirmative ones in several cases,
\* the empty string, answers that hold YES without beginning with it
YesLower == <<"y","e","s">>
YesMixed == <<"Y","e","s",","," ","I"," ","s","h","o","u","l","d"," ","a","c","t">>
EmptyReply == <<>>
NoNotYes == <<"N","O",","," ","n","o","t"," ","Y","E","S">>
SpaceYes == <<" ","Y","E","S">>
YeReply == <<"Y","E">>

WorkerJudgeOutcomes ==
    JudgeOutcomes \cup {Ok(YesLower), Ok(YesMixed), Ok(EmptyReply), Ok(NoNotYes),
                        Ok(SpaceYes), Ok(YeReply)}

\* generated texts of a stub gateway: 19, 20 and 25 plain words, a short
\* deflection, and each deflection phrase, in upper case, after 20 words
\* 19 words separated by a newline, a tab and runs of spaces
Spaced19 == Words(10) \o <<" ", "\n", "\t", " ">> \o Words(9)

PleaseProvide == <<"P","l","e","a","s","e"," ","p","r","o","v","i","d","e"," ","t","h","e"," ","a","r","t","i","c","l","e">>

Deflections == {Words(20) \o <<" ">> \o Upper(phrase) : phrase \in generic_phrases}

WorkerGenOutcomes ==
    GenOutcomes \cup {Ok(Words(19)), Ok(Words(25)), Ok(Spaced19), Ok(PleaseProvide)}
               \cup {Ok(text) : text \in Deflections}

WorkerConfigs ==
    {[CONTEXT_WINDOW |-> w, DEBUG_DECISIONS |-> d] : w \in ContextWindows, d \in BOOLEAN}

InitWorker ==
    /\ Constructed
    /\ pc = [main |-> "driver", agent |-> "idle"]
    /\ config \in WorkerConfigs
    /\ harness = TRUE
    /\ terminal = FALSE

\* post, lines 13-21, run without interruption between two worker turns
DriverPost(sender, content) ==
    /\ pc["agent"] = "idle"
    /\ Room(1)
    /\ LET counter == post_increment(_message_id)
       IN  /\ _message_id' = counter
           /\ messages' = post_append(messages, post_message(counter, sender, content))
    /\ UNCHANGED call
    /\ BBFrame

DriverInvite(i) ==
    /\ pc["agent"] = "idle"
    /\ Len(messages) <= MaxContext
    /\ agent_i' = i
    /\ pc' = [pc EXCEPT !["agent"] = "try_act"]
    /\ UNCHANGED <<messages, _message_id, last_processed_id, running, last_displayed_id,
                   post_frame, display_frame, context_messages, result, console, config,
                   turn, pass, seen_len, call, harness, terminal>>

NextWorker ==
    \/ \E sender \in Senders : DriverPost(sender, WriteAboutCats)
    \/ \E i \in 1..Len(agents) : DriverInvite(i)
    \/ TryAct
    \/ \E outcome \in WorkerJudgeOutcomes : ShouldAct(outcome)
    \/ \E outcome \in WorkerGenOutcomes : ProcessText(outcome)
    \/ Completion
    \/ Return
    \/ PostIncrement("agent")
    \/ PostMessage("agent")
    \/ PostAppend("agent")

SpecWorker == InitWorker /\ [][NextWorker]_vars

\* BlackboardSystem(context_window): the argument is <<>> when it is left
\* out and <<n>> when n is passed, with the default Config
WindowArguments == {<<>>, <<1>>, <<2>>}

SystemArgConfigs ==
    [CONTEXT_WINDOW : {DefaultContextWindow}, DEBUG_DECISIONS : {FALSE},
     context_window : WindowArguments]

\* BlackboardSystem.__init__, lines 26-29: the window of the Router the
\* system builds for itself
system_context_window(cfg) ==
    IF cfg.context_window = <<>> THEN cfg.CONTEXT_WINDOW ELSE cfg.context_window[1]

\* the workers of a BlackboardSystem built with an argument, driven directly
InitSystem ==
    /\ Constructed
    /\ pc = [main |-> "driver", agent |-> "idle"]
    /\ config \in SystemArgConfigs
    /\ harness = TRUE
    /\ terminal = FALSE

SpecSystem == InitSystem /\ [][NextWorker]_vars

-----------------------------------------------------------------------------
(* The gateway client (src/llm.py): the providers and the choice of the    *)
(* active one.  An Optional[str] of the Config is the empty sequence for   *)
(* None and the one-element sequence <<s>> for the str s.                  *)

None == <<>>
Some(s) == <<s>>

\* bool(key) of Python: neither None nor the empty str
Truthy(key) == key # None /\ key[1] # <<>>

OpenAIName == <<"o","p","e","n","a","i">>
GeminiName == <<"g","e","m","i","n","i">>

\* values of LLM_PROVIDER in the environment
OpenAINames == {OpenAIName, <<"O","p","e","n","A","I">>}
GeminiNames == {GeminiName, <<"G","E","M","I","N","I">>}
OtherNames == {<<"c","l","a","u","d","e">>, <<>>}
ProviderNames == OpenAINames \cup GeminiNames \cup OtherNames

\* values of OPENAI_API_KEY and GEMINI_API_KEY: unset, set to "", set to a key
KeyValues == {None, Some(<<>>), Some(<<"k">>)}

\* the Config, and whether google.generativeai can be imported
LLMConfigs ==
    [CONTEXT_WINDOW : {DefaultContextWindow}, DEBUG_DECISIONS : {FALSE},
     LLM_PROVIDER : ProviderNames, OPENAI_API_KEY : KeyValues,
     GEMINI_API_KEY : KeyValues, genai : BOOLEAN]

\* OpenAIProvider.__init__, line 23
OpenAIProvider(cfg) ==
    [key |-> OpenAIName, client |-> Truthy(cfg.OPENAI_API_KEY),
     api_key |-> cfg.OPENAI_API_KEY]

\* GeminiProvider.__init__, lines 46-54
GeminiProvider(cfg) ==
    [key |-> GeminiName, model |-> (cfg.genai /\ Truthy(cfg.GEMINI_API_KEY))]

\* is_available, lines 38-39 and 86-87
is_available(provider) ==
    IF provider.key = OpenAIName THEN provider.api_key # None
    ELSE provider.model

\* LLMClient.__init__, lines 94-97: the dict in its insertion order
providers(cfg) == <<OpenAIProvider(cfg), GeminiProvider(cfg)>>

Selected(i) == [raised |-> FALSE, current_provider |-> i, name |-> <<>>]
NoProvider == [raised |-> TRUE, current_provider |-> 0, name |-> <<>>]

\* the first index at which the sequence of tests holds TRUE, 0 when none
First(tests) ==
    IF \E i \in 1..Len(tests) : tests[i]
    THEN CHOOSE i \in 1..Len(tests) : tests[i] /\ \A j \in 1..(i - 1) : ~tests[j]
    ELSE 0

\* _get_active_provider comparing LLM_PROVIDER as it is written
_get_active_provider_as_written(ps, LLM_PROVIDER) ==
    LET configured == First([i \in 1..Len(ps) |-> ps[i].key = LLM_PROVIDER])
        available == First([i \in 1..Len(ps) |-> is_available(ps[i])])
    IN  IF configured # 0 /\ is_available(ps[configured]) THEN Selected(configured)
        ELSE IF available # 0 THEN Selected(available)
        ELSE NoProvider

\* _get_active_provider, lines 100-112
_get_active_provider(ps, LLM_PROVIDER) ==
    LET provider_name == Lower(LLM_PROVIDER)
        configured == First([i \in 1..Len(ps) |-> ps[i].key = provider_name])
        available == First([i \in 1..Len(ps) |-> is_available(ps[i])])
    IN  IF configured # 0 /\ is_available(ps[configured]) THEN Selected(configured)
        ELSE IF available # 0 THEN Selected(available)
        ELSE NoProvider

\* get_provider_name, lines 118-123
get_provider_name(ps, current_provider) ==
    LET found == First([i \in 1..Len(ps) |-> ps[i] = ps[current_provider]])
    IN  IF found # 0 THEN ps[found].key ELSE <<"u","n","k","n","o","w","n">>

InitLLM ==
    /\ Constructed
    /\ pc = [main |-> "driver", agent |-> "unstarted"]
    /\ config \in LLMConfigs
    /\ harness = FALSE
    /\ terminal = FALSE

LLMFrame ==
    UNCHANGED <<messages, _message_id, last_processed_id, running, last_displayed_id,
                pc, post_frame, display_frame, agent_i, context_messages, result,
                console, config, turn, pass, seen_len, harness, terminal>>

\* LLMClient(), lines 93-98
LLMClientNew ==
    /\ call.op = "none"
    /\ call' = [op |-> "LLMClient", arg |-> <<>>,
                ret |-> _get_active_provider(providers(config), config.LLM_PROVIDER),
                posts |-> 0, refs |-> <<>>]
    /\ LLMFrame

\* get_provider_name() on the client just built
LLMGetProviderName ==
    /\ call.op = "LLMClient"
    /\ ~call.ret.raised
    /\ call' = [call EXCEPT
                  !.op = "get_provider_name",
                  !.ret.name = get_provider_name(providers(config),
                                                 call.ret.current_provider)]
    /\ LLMFrame

\* Config.validate, lines 35-42
validate(cfg) ==
    LET provider == Lower(cfg.LLM_PROVIDER)
    IN  IF provider = OpenAIName /\ ~Truthy(cfg.OPENAI_API_KEY) THEN FALSE
        ELSE IF provider = GeminiName /\ ~Truthy(cfg.GEMINI_API_KEY) THEN FALSE
        ELSE TRUE

\* Config.get_missing_vars, lines 45-53
get_missing_vars(cfg) ==
    LET provider == Lower(cfg.LLM_PROVIDER)
    IN  IF provider = OpenAIName /\ ~Truthy(cfg.OPENAI_API_KEY) THEN <<"OPENAI_API_KEY">>
        ELSE IF provider = GeminiName /\ ~Truthy(cfg.GEMINI_API_KEY)
        THEN <<"GEMINI_API_KEY">>
        ELSE <<>>

\* the workers BlackboardSystem.__init__ builds, main.py lines 32-36: each
\* BaseAgent.__init__ builds its LLMClient (agents.py line 31), and the
\* ValueError of the first one leaves the constructor
BlackboardSystemNew(cfg) ==
    LET client == _get_active_provider(providers(cfg), cfg.LLM_PROVIDER)
    IN  IF client.raised
        THEN [raised |-> TRUE, workers |-> 0, current_provider |-> 0]
        ELSE [raised |-> FALSE, workers |-> Len(agents),
              current_provider |-> client.current_provider]

\* main, lines 119-134: the banner and return, or the system built and
\* started, or the exception of the constructor leaving main
main(cfg) ==
    IF ~validate(cfg)
    THEN [outcome |-> "banner", missing |-> get_missing_vars(cfg), workers |-> 0,
          current_provider |-> 0]
    ELSE LET system == BlackboardSystemNew(cfg)
         IN  IF system.raised
             THEN [outcome |-> "uncaught", missing |-> <<>>, workers |-> 0,
                   current_provider |-> 0]
             ELSE [outcome |-> "started", missing |-> <<>>, workers |-> system.workers,
                   current_provider |-> system.current_provider]

\* python main.py
LLMMain ==
    /\ call.op = "none"
    /\ call' = [op |-> "main", arg |-> <<>>, ret |-> main(config), posts |-> 0,
                refs |-> <<>>]
    /\ LLMFrame

NextLLM == LLMClientNew \/ LLMGetProviderName \/ LLMMain

SpecLLM == InitLLM /\ [][NextLLM]_vars

-----------------------------------------------------------------------------
(* The claims.                                                             *)

IsPrefix(a, b) == Len(a) <= Len(b) /\ SubSeq(b, 1, Len(a)) = a

IdsIncrease(msgs) ==
    \A i, j \in 1..Len(msgs) : i < j => msgs[i].id < msgs[j].id

\* C1: when the main thread and the agent thread call post concurrently, no
\* two stored messages carry the same id, no id is skipped (every id from 1
\* to the number of stored messages is in the list) and the ids increase
\* strictly in list order.
C1_ConcurrentPostIds ==
    /\ \A i, j \in 1..Len(messages) : i # j => messages[i].id # messages[j].id
    /\ \A k \in 1..Len(messages) : \E i \in 1..Len(messages) : messages[i].id = k
    /\ IdsIncrease(messages)

\* C2: on a fresh Blackboard, with post called one call after another, the
\* k-th call returns k, the message at list position k has id k, and
\* get_messages_since(0) equals get_all_messages().
C2_SequentialPostIds ==
    /\ call.op = "post" => (call.ret = call.posts /\ Len(messages) = call.posts)
    /\ \A k \in 1..Len(messages) : messages[k].id = k
    /\ get_messages_since(messages, 0) = get_all_messages(messages)

C2_ThirdPostReturnsThree ==
    /\ call.op = "post"
    /\ call.posts = 3
    /\ call.ret = 3
    /\ messages[3].id = 3

\* the last min(n, size) messages, oldest first; nothing for n <= 0
LastMessages(msgs, n) ==
    IF n <= 0 THEN <<>>
    ELSE SubSeq(msgs, (IF n >= Len(msgs) THEN 0 ELSE Len(msgs) - n) + 1, Len(msgs))

\* C3: get_last_messages(n) returns exactly the last min(n, size) messages in
\* append order; get_last_messages(0) is empty and so is every count <= 0.
C3_LastMessages ==
    call.op = "get_last_messages" => call.ret = LastMessages(messages, call.arg)

\* C4: the log is append-only: every step leaves the earlier log a prefix of
\* the later one, every earlier message unchanged, and the list order is the
\* id order.
C4_AppendOnlyInIdOrder ==
    [][IsPrefix(messages, messages') /\ IdsIncrease(messages')]_vars

\* C5: a worker turn that starts while the log is empty issues no judgment
\* call and no generation call and appends nothing; the sentinel
\* "No messages available." is never sent to the gateway.
C5_EmptyLogNoGatewayCall ==
    /\ (turn.agent # 0 /\ turn.start = 0) =>
            /\ pc["agent"] = "return"
            /\ turn.judge = "none"
            /\ turn.gen = "none"
            /\ turn.posts = <<>>
            /\ messages = <<>>
    /\ ~turn.sentinel

C5_TurnOnEmptyLog ==
    /\ turn.agent # 0
    /\ turn.start = 0
    /\ pc["agent"] = "return"

\* C6: when the gateway raises during the decision step, the decision is
\* negative: the turn appends nothing, makes no generation call, and the
\* exception does not leave try_act (the turn returns).
C6_JudgeFailureIsNegative ==
    /\ pc["agent"] # "dead"
    /\ turn.judge = "raise" =>
            /\ pc["agent"] = "return"
            /\ ~turn.decision
            /\ turn.gen = "none"
            /\ turn.posts = <<>>
            /\ Len(messages) = turn.start

C6_JudgeRaisedWithDebug ==
    /\ turn.judge = "raise"
    /\ config.DEBUG_DECISIONS
    /\ messages # <<>>
    /\ pc["agent"] = "return"

\* the posts of the turn, by their place in the turn, that carry an error
\* marker under the worker's own name
ErrorMarkers ==
    {k \in 1..Len(turn.posts) :
        /\ messages[turn.posts[k]].from = agents[turn.agent].name
        /\ StartsWith(messages[turn.posts[k]].text, ErrorPrefix)}

\* C7: when the decision is affirmative and the gateway raises during
\* generation, the turn returns normally and has appended exactly one message
\* under the worker's own name whose text is an error marker; it is the
\* turn's second post, after its "now working" notice, and directly after it
\* in the log when nobody else appended during the turn.
C7_GenerationFailureMarker ==
    /\ pc["agent"] # "dead"
    /\ (pc["agent"] = "return" /\ turn.decision /\ turn.gen = "raise") =>
            /\ Len(turn.posts) >= 2
            /\ messages[turn.posts[1]].from = SYSTEM
            /\ messages[turn.posts[1]].text = working_notice(agents[turn.agent].name)
            /\ ErrorMarkers = {2}
            /\ (Len(messages) = turn.start + Len(turn.posts)) =>
                    turn.posts[2] = turn.posts[1] + 1

C7_MarkerPostedWhileUserPosts ==
    /\ pc["agent"] = "return"
    /\ turn.decision
    /\ turn.gen = "raise"
    /\ Len(messages) > turn.start + Len(turn.posts)

\* C8: whatever the gateway answers or raises, a pass in which running stays
\* true invites every worker of the list, the agent thread never ends by an
\* exception, and a pass that has started goes on to mark_processed, the
\* display and the next iteration of the loop (unless the process exits).
C8_PassSurvivesGatewayFailures ==
    /\ [](pc["agent"] # "dead")
    /\ []((pc["agent"] = "for" /\ ~pass.stopped) => pass.invited = 1..(agent_i - 1))
    /\ []((pc["agent"] = "mark" /\ ~pass.stopped) => pass.invited = 1..Len(agents))
    /\ (pc["agent"] = "for") ~> (pc["agent"] \in {"display_get", "killed"})
    /\ (pc["agent"] = "display_get") ~> (pc["agent"] \in {"while", "killed"})

C8_FirstWorkerFailedAllInvited ==
    /\ pc["agent"] = "mark"
    /\ 1 \in pass.failed
    /\ pass.invited = 1..Len(agents)
    /\ running

\* a user message that no complete pass has had in the log from its start
UserMessagePending ==
    \E p \in (seen_len + 1)..Len(messages) : messages[p].from = USER

\* C9: every user message appended while the system is running is eventually
\* followed by a pass in which every worker is invited with that message in
\* the log, given that the loop is scheduled and every gateway call returns.
\* A run in which the log fills up to MaxLog is left out, so that a run that
\* refutes this is one where the user could still type and the workers
\* could still post.
C9_UserMessageEventuallySeen ==
    (UserMessagePending /\ running)
        ~> (~UserMessagePending \/ ~running \/ Len(messages) + Pending >= MaxLog)

\* the ids of the log are 1, 2, ... in list order: no concurrent post has
\* disturbed them
IdsAreSequential(msgs) == \A k \in 1..Len(msgs) : msgs[k].id = k

\* C10: the observer shows every message exactly once and in id order: even
\* while the ids of the log are 1, 2, ... in list order, what is printed is
\* the log's messages from the first on, one each, no message is printed
\* before one with a smaller id, last_displayed_id never decreases, and a
\* call with nothing new prints nothing and changes nothing.
C10_DisplayedOnceInOrder ==
    [][IdsAreSequential(messages') =>
        /\ Len(console') <= Len(messages')
        /\ \A k \in 1..Len(console') : console'[k] = k
        /\ last_displayed_id' >= last_displayed_id
        /\ \A t \in Threads :
             (pc[t] = "display_print" /\ pc'[t] # "display_print" /\ display_frame[t] = <<>>)
                 => (console' = console /\ last_displayed_id' = last_displayed_id)]_vars

\* the number of messages a worker turn that has returned must have appended
TurnAppends ==
    IF turn.decision
    THEN IF did_complete_task(result) /\ get_completion_message(turn.agent) # <<>>
         THEN 3 ELSE 2
    ELSE IF turn.judge = "ok" /\ config.DEBUG_DECISIONS THEN 1
    ELSE 0

\* C11: within a pass the workers are invited one after another in the order
\* of the agents list, each at most once: a worker is invited only when the
\* workers before it in the list, and no others, have been invited and have
\* all ended their turns, with every append of theirs in the log; at no time
\* are two turns in progress.
C11_WorkersOneAfterAnother ==
    [][/\ (pc["agent"] = "for" /\ pc'["agent"] = "try_act") =>
            /\ agent_i \notin pass.invited
            /\ pass.invited = 1..(agent_i - 1)
            /\ pass.ended = pass.invited
            /\ turn = NoTurn
            /\ post_frame["agent"] = NoPost
       /\ Cardinality(pass'.invited \ pass'.ended) <= 1
       /\ (pc["agent"] = "return" /\ pc'["agent"] = "for") =>
            /\ post_frame["agent"] = NoPost
            /\ Len(turn.posts) = TurnAppends
            /\ pass.invited \ pass.ended = {agent_i}]_vars

C11_ThirdWorkerInvitedInTurn ==
    /\ pc["agent"] = "try_act"
    /\ agent_i = 3
    /\ pass.ended = {1, 2}
    /\ Len(messages) >= 4

\* C12: the cursor never decreases; only the mark_processed of the
\* orchestrator loop changes it, after the invitations of the pass, with no
\* worker turn in progress; and mark_processed sets it to the id of the last
\* message of the log at that moment, or leaves it when the log is empty.
C12_CursorMonotonic ==
    [][/\ last_processed_id' >= last_processed_id
       /\ last_processed_id' # last_processed_id =>
            (pc["agent"] = "mark" /\ pc'["agent"] = "display_get")
       /\ (pc["agent"] = "mark" /\ pc'["agent"] = "display_get") =>
            /\ pass.invited = pass.ended
            /\ (pass.stopped \/ pass.invited = 1..Len(agents))
            /\ turn = NoTurn
            /\ last_processed_id' = IF messages # <<>> THEN messages[Len(messages)].id
                                    ELSE last_processed_id]_vars

C12_CursorSetAfterWorkerActed ==
    /\ pc["agent"] = "display_get"
    /\ \E k \in 1..Len(messages) : messages[k].from = SYSTEM
    /\ last_processed_id >= 3
    /\ last_processed_id = messages[Len(messages)].id

\* C13 as stated: once running is false no worker turn begins.
C13_NoTurnBeginsAfterStop ==
    pass.late_begun = 0

\* C13: every invitation follows a check that saw running true, the loop top
\* that sees running false leaves the loop, and after the stop request at
\* most one worker turn begins (the one whose check had passed before the
\* stop) and at most one worker turn ends.
C13_StopHonoredWithinOneTurn ==
    [][/\ (pc["agent"] = "for" /\ pc'["agent"] = "try_act") => running
       /\ (pc["agent"] = "while" /\ pc'["agent"] = "has_new") => running
       /\ (pc["agent"] = "while" /\ ~running /\ pc'["agent"] # "while") =>
            pc'["agent"] \in {"finished", "killed"}
       /\ pass'.late_begun <= 1
       /\ pass'.late_ended <= 1]_vars

C13_TurnBegunAfterStopEnded ==
    /\ ~running
    /\ pc["agent"] = "for"
    /\ pass.late_begun = 1
    /\ pass.late_ended = 1
    /\ pass.stopped

\* C14: on a log that holds only ("user", "Write about cats"), a worker
\* whose judgment stub answers "YES: relevant" and whose generation stub
\* returns 25 plain words leaves the log with exactly the user message, the
\* system notice, the generated text and the hand-off notice, in this order.
C14_EndToEndPass ==
    (/\ pc["agent"] = "return"
     /\ turn.start = 1
     /\ messages[1] = post_message(1, USER, WriteAboutCats)
     /\ config.CONTEXT_WINDOW >= 1
     /\ turn.answer = YesRelevant /\ turn.judge = "ok"
     /\ result = Words(25) /\ turn.gen = "ok")
        => LET name == agents[turn.agent].name
           IN  messages = << post_message(1, USER, WriteAboutCats),
                             post_message(2, SYSTEM, working_notice(name)),
                             post_message(3, name, Words(25)),
                             post_message(4, name, get_completion_message(turn.agent)) >>

C14_FourMessagesAfterPass ==
    /\ pc["agent"] = "return"
    /\ turn.start = 1
    /\ messages[1] = post_message(1, USER, WriteAboutCats)
    /\ turn.answer = YesRelevant
    /\ result = Words(25)
    /\ Len(messages) = 4
    /\ messages[4].text = WriterCompletion

\* the posts of the turn that carry the worker's hand-off notice
HandOffs ==
    {k \in 1..Len(turn.posts) :
        /\ messages[turn.posts[k]].from = agents[turn.agent].name
        /\ messages[turn.posts[k]].text = agents[turn.agent].completion}

\* the turn has appended the notice and then the text `result` under the
\* worker's own name
Contributed ==
    /\ Len(turn.posts) >= 2
    /\ messages[turn.posts[1]].from = SYSTEM
    /\ messages[turn.posts[1]].text = working_notice(agents[turn.agent].name)
    /\ messages[turn.posts[2]].from = agents[turn.agent].name
    /\ messages[turn.posts[2]].text = result

\* C15: a worker whose generated text holds a deflection phrase, in any
\* case and whatever the length of the text, appends the text under its own
\* name and no hand-off notice.
C15_DeflectionNoHandOff ==
    (pc["agent"] = "return" /\ turn.gen = "ok"
        /\ result \in Deflections \cup {PleaseProvide})
        => (Contributed /\ Len(turn.posts) = 2 /\ HandOffs = {})

C15_LongDeflectionPosted ==
    /\ pc["agent"] = "return"
    /\ turn.gen = "ok"
    /\ result \in Deflections
    /\ Len(turn.posts) = 2
    /\ messages[Len(messages)].text = result

\* C16: for a generated text without a deflection phrase the hand-off
\* notice is appended iff the text has at least 20 words: never with 19,
\* always with 20 or 25.
C16_WordFloorBoundary ==
    (pc["agent"] = "return" /\ turn.gen = "ok") =>
        /\ result \in {Words(19), Spaced19} =>
                (Contributed /\ Len(turn.posts) = 2 /\ HandOffs = {})
        /\ result \in {Words(20), Words(25)} =>
                (Contributed /\ Len(turn.posts) = 3 /\ HandOffs = {3})

C16_TwentyWordsHandOff ==
    /\ pc["agent"] = "return"
    /\ result = Words(20)
    /\ HandOffs = {3}

\* C17 as stated: a turn whose judgment answer is "NO" leaves the log as
\* long as it was.
C17_NoAnswerKeepsLog ==
    (turn.judge = "ok" /\ turn.answer = NoReply) => Len(messages) = turn.start

\* C17: when the debug flag is not set, a turn whose judgment answer is "NO"
\* leaves the log unchanged at every step, so a pass of such turns does; when
\* the flag is set the turn ends with one message more.
C17_NoAnswerKeepsLogWithoutDebug ==
    (turn.judge = "ok" /\ turn.answer = NoReply) =>
        /\ ~config.DEBUG_DECISIONS =>
                (Len(messages) = turn.start /\ pc["agent"] = "return")
        /\ (config.DEBUG_DECISIONS /\ pc["agent"] = "return") =>
                Len(messages) = turn.start + 1

C17_ThirdWorkerSaidNo ==
    /\ pc["agent"] = "return"
    /\ turn.agent = 3
    /\ turn.answer = NoReply
    /\ turn.judge = "ok"
    /\ ~config.DEBUG_DECISIONS
    /\ turn.start = 2
    /\ Len(messages) = 2

\* C18: the worker acts iff the judgment answer begins, in any case, with
\* YES: it then appends the notice and a contribution; on every other
\* answer, the empty one and those that hold YES further on included, it
\* appends neither.
C18_ActsIffAnswerBeginsWithYes ==
    (pc["agent"] = "return" /\ turn.judge = "ok") =>
        /\ turn.answer \in {YesRelevant, YesLower, YesMixed} => Contributed
        /\ turn.answer \in {NoReply, EmptyReply, NoNotYes, SpaceYes, YeReply} =>
                /\ result = <<>>
                /\ turn.gen = "none"
                /\ \A k \in 1..Len(turn.posts) :
                        /\ messages[turn.posts[k]].from # SYSTEM
                        /\ StartsWith(messages[turn.posts[k]].text, DecisionPrefix)
                /\ Len(turn.posts) = IF config.DEBUG_DECISIONS THEN 1 ELSE 0

C18_LowerCaseYesActed ==
    /\ pc["agent"] = "return"
    /\ turn.answer = YesLower
    /\ Len(turn.posts) >= 2

\* C19: a line that is quit, exit or q once trimmed and lower-cased stops
\* the system and starts no post; a line that is empty once trimmed changes
\* nothing; the request typed between blanks starts one post of the trimmed
\* text under "user", and the main thread changes the log only by completing
\* that post, which appends exactly that one message.
C19_InteractiveBoundary ==
    [][/\ \A line \in QuitLines : UserInput(line) =>
              /\ ~running'
              /\ pc'["main"] = "returned"
              /\ UNCHANGED <<messages, post_frame, last_processed_id, last_displayed_id>>
       /\ \A line \in BlankLines : UserInput(line) =>
              UNCHANGED <<messages, last_processed_id, last_displayed_id, post_frame,
                          pc, running>>
       /\ UserInput(PaddedRequest) =>
              /\ post_frame'["main"].sender = USER
              /\ post_frame'["main"].content = WriteAboutCats
              /\ pc'["main"] = "post_increment"
              /\ UNCHANGED <<messages, running>>
       /\ (pc'["main"] # pc["main"] /\ messages' # messages) =>
              /\ pc["main"] = "post_append"
              /\ pc'["main"] = "display_get"
              /\ Len(messages') = Len(messages) + 1
              /\ SubSeq(messages', 1, Len(messages)) = messages
              /\ messages'[Len(messages')].from = USER
              /\ messages'[Len(messages')].text = WriteAboutCats
       /\ (pc'["main"] = "post_append" /\ pc["main"] # "post_append") =>
              pc["main"] = "post_message"
       /\ (pc'["main"] = "post_message" /\ pc["main"] # "post_message") =>
              pc["main"] = "post_increment"
       /\ (pc'["main"] = "post_increment" /\ pc["main"] # "post_increment") =>
              pc["main"] = "input"]_vars

C19_TrimmedRequestAppended ==
    /\ pc["main"] = "display_get"
    /\ messages # <<>>
    /\ messages[Len(messages)].from = USER
    /\ messages[Len(messages)].text = WriteAboutCats
    /\ Len(messages) >= 2

Usable(provider) ==
    IF provider.key = OpenAIName THEN provider.client ELSE provider.model

SomeUsable == \E i \in 1..Len(providers(config)) : Usable(providers(config)[i])

\* C21: main builds the workers and starts exactly when some provider is
\* usable; when none is, it shows the banner naming the missing variable and
\* returns with no worker built and no exception.
C21_StartupGating ==
    call.op = "main" =>
        /\ SomeUsable => (call.ret.outcome = "started" /\ call.ret.workers = Len(agents))
        /\ ~SomeUsable =>
              /\ call.ret.outcome = "banner"
              /\ call.ret.missing # <<>>
              /\ call.ret.workers = 0

\* C22: whatever the caller does to the list get_all_messages returned, to
\* its entries or to a field of one of its messages, the Blackboard's own
\* messages stay as they were.
C22_CallerMutationIsolated ==
    [][call'.op \in {"caller_list", "caller_field"} => messages' = messages]_vars

\* C23: in every worker turn and for every window size W, the messages
\* rendered into the judgment and the generation request are the last
\* min(W, size) messages of the log as it was when the turn began, never
\* more than W of them.
C23_ContextIsLastWindow ==
    pc["agent"] \in {"should_act", "process_text"} =>
        /\ context_messages =
              LastMessages(SubSeq(messages, 1, turn.start), config.CONTEXT_WINDOW)
        /\ Len(context_messages) <= config.CONTEXT_WINDOW

\* C24: no runaway: a pass begins only when the user has appended a message
\* since the end of the pass before it (pass.marked is the length of the log
\* when mark_processed last ran), so the messages of the workers start no
\* pass by themselves and there are at most as many passes as user messages.
C24_PassNeedsUserMessage ==
    [][(pc["agent"] = "has_new" /\ pc'["agent"] = "for") =>
          \E k \in (pass.marked + 1)..Len(messages) : messages[k].from = USER]_vars

\* C25: a worker that has appended its notice goes on to append its
\* contribution, the generated text or the error marker, whatever the user
\* and the main thread do in between.
C25_BegunTurnCompletes ==
    (turn.decision /\ Len(turn.posts) = 1) ~> (Len(turn.posts) >= 2)

\* C26: a negative decision appends, when the debug flag is set, exactly one
\* message that carries the decision text under a sender that is no
\* worker's name, and nothing when the flag is not set; a decision that
\* failed with an exception appends nothing.
C26_DebugDecisionNotUnderWorkerName ==
    (pc["agent"] = "return" /\ turn.judge # "none" /\ ~turn.decision) =>
        /\ (turn.judge = "ok" /\ config.DEBUG_DECISIONS) =>
              /\ Len(turn.posts) = 1
              /\ messages[turn.posts[1]].text = DecisionPrefix \o turn.answer
              /\ \A i \in 1..Len(agents) : messages[turn.posts[1]].from # agents[i].name
        /\ (turn.judge = "ok" /\ ~config.DEBUG_DECISIONS) => turn.posts = <<>>
        /\ turn.judge = "raise" => turn.posts = <<>>

\* str.split("\n"): the lines of a text
RECURSIVE SplitLines(_)
SplitLines(s) ==
    IF \E i \in 1..Len(s) : s[i] = "\n"
    THEN LET i == CHOOSE i \in 1..Len(s) : s[i] = "\n" /\ \A j \in 1..(i - 1) : s[j] # "\n"
         IN  <<SubSeq(s, 1, i - 1)>> \o SplitLines(SubSeq(s, i + 1, Len(s)))
    ELSE <<s>>

\* C27: format_context renders a non-empty sequence of messages as one line
\* per message, "<sender>: <text>", in order, so that there are as many
\* lines as messages; the empty sequence renders as the sentinel.
C27_OneLinePerMessage ==
    call.op = "format_context" =>
        IF call.arg = <<>> THEN call.ret = NoMessages
        ELSE LET lines == SplitLines(call.ret)
             IN  /\ Len(lines) = Len(call.arg)
                 /\ \A k \in 1..Len(call.arg) :
                        lines[k] = call.arg[k].from \o <<":", " ">> \o call.arg[k].text

\* C28: a hand-off notice in the log comes right after the generated text of
\* the same worker, which comes right after the system notice naming that
\* worker: the appends of one turn are contiguous.
C28_TurnAppendsContiguous ==
    \A k \in 1..Len(messages) : \A i \in 1..Len(agents) :
        (messages[k].from = agents[i].name /\ messages[k].text = agents[i].completion) =>
            /\ k >= 3
            /\ messages[k - 1].from = agents[i].name
            /\ messages[k - 2].from = SYSTEM
            /\ messages[k - 2].text = working_notice(agents[i].name)

\* C29: a turn whose generation call raised, and which appended the error
\* marker in place of the contribution, appends no hand-off notice, whatever
\* the message of the exception.
C29_NoHandOffAfterFailure ==
    (pc["agent"] = "return" /\ turn.gen = "raise") =>
        (ErrorMarkers # {} /\ HandOffs = {} /\ Len(turn.posts) = 2)

\* C30: the workers of BlackboardSystem(context_window) see, when they
\* decide, at most context_window of the most recent messages: the window
\* they use is the one the system was built with.
C30_WorkersUseSystemWindow ==
    pc["agent"] = "should_act" =>
        /\ Len(context_messages) <= system_context_window(config)
        /\ context_messages =
              LastMessages(SubSeq(messages, 1, turn.start), system_context_window(config))

====
